---- MODULE Spec2Model ----
(***************************************************************************)
(* AgroVision (shibray/Agriculture_simulator): the Flask routes of         *)
(* src/agrovision/app.py over the tables of src/agrovision/models.py, and  *)
(* the scoring helpers they call.                                          *)
(*                                                                         *)
(* Representation.                                                         *)
(*  - A Python str is a sequence of one-character atoms; each atom is a    *)
(*    TLA+ string ("a", "7", " "), with "deg" for the degree sign and      *)
(*    "endash" for the en dash.                                            *)
(*  - A Python float is a record [k, v]: k = "num" with v the value in     *)
(*    units of 1/Scale, k = "nan", or k = "inf" with v the sign.  Every    *)
(*    number the model feeds in is a multiple of 1/Scale, a binary         *)
(*    fraction, so the float arithmetic of the code is exact on it.        *)
(*  - Where the code rounds a float sum of decimal products that lies on   *)
(*    a half (x.5 in exact arithmetic) the double the build computes may   *)
(*    fall on either side: the model takes both outcomes.                  *)
(***************************************************************************)
EXTENDS Integers, Sequences, FiniteSets, TLC

VARIABLES users, session, campaigns, investments, request, response, call,
          inflight

vars == <<users, session, campaigns, investments, request, response, call,
          inflight>>

\* ------------------------------------------------------------------ bounds
\* Units per degree / per currency unit of the fixed-point floats.
Scale == 4 * 4
\* How far outside the ideal range the temperatures of SpecTemp go, in degrees.
TempMargin == 14
\* The grid steps of the sub-scores of SpecComposite: soil and nutrient, and water
\* (the weather sub-score takes every value of 0..100).
ScoreStep == 10
WaterStep == 5
MaxCampaigns == 2
MaxInvestments == 2

\* --------------------------------------------------------------- arithmetic
Max(a, b) == IF a >= b THEN a ELSE b
Min(a, b) == IF a <= b THEN a ELSE b

\* app.py clamp: max(lo, min(hi, n)).
clamp(n, lo, hi) == Max(lo, Min(hi, n))

\* Python int(x) of a float x given in units of 1/Scale: truncation toward zero.
IntOf(x) == IF x >= 0 THEN x \div Scale ELSE -((-x) \div Scale)

\* Python round() of the float whose exact value is x/10, as int: the nearest
\* integer, and on an exact half either neighbour (see Representation).
RoundTenths(x) ==
    LET q == x \div 10
        r == x % 10
    IN  IF r < 5 THEN {q} ELSE IF r > 5 THEN {q + 1} ELSE {q, q + 1}

\* ------------------------------------------------------------------ floats
Num(v) == [k |-> "num", v |-> v]
NaN == [k |-> "nan", v |-> 0]
Inf(sign) == [k |-> "inf", v |-> sign]

\* x <= 0 for a float x (False for nan).
FLeqZero(x) ==
    CASE x.k = "num" -> x.v <= 0
      [] x.k = "inf" -> x.v < 0
      [] OTHER -> FALSE

\* x > 0 for a float x (False for nan).
FGtZero(x) ==
    CASE x.k = "num" -> x.v > 0
      [] x.k = "inf" -> x.v > 0
      [] OTHER -> FALSE

\* x + y for floats.
FAdd(x, y) ==
    CASE x.k = "nan" \/ y.k = "nan" -> NaN
      [] x.k = "inf" /\ y.k = "inf" -> IF x.v = y.v THEN x ELSE NaN
      [] x.k = "inf" -> x
      [] y.k = "inf" -> y
      [] OTHER -> Num(x.v + y.v)

\* ----------------------------------------------------------------- strings
Digits == {"0", "1", "2", "3", "4", "5", "6", "7", "8", "9"}

DigitVal(c) ==
    CASE c = "0" -> 0 [] c = "1" -> 1 [] c = "2" -> 2 [] c = "3" -> 3
      [] c = "4" -> 4 [] c = "5" -> 5 [] c = "6" -> 6 [] c = "7" -> 7
      [] c = "8" -> 8 [] c = "9" -> 9

\* str.lower() of one character.
LowerChar(c) ==
    CASE c = "A" -> "a" [] c = "B" -> "b" [] c = "C" -> "c" [] c = "D" -> "d"
      [] c = "E" -> "e" [] c = "F" -> "f" [] c = "G" -> "g" [] c = "H" -> "h"
      [] c = "I" -> "i" [] c = "J" -> "j" [] c = "K" -> "k" [] c = "L" -> "l"
      [] c = "M" -> "m" [] c = "N" -> "n" [] c = "O" -> "o" [] c = "P" -> "p"
      [] c = "Q" -> "q" [] c = "R" -> "r" [] c = "S" -> "s" [] c = "T" -> "t"
      [] c = "U" -> "u" [] c = "V" -> "v" [] c = "W" -> "w" [] c = "X" -> "x"
      [] c = "Y" -> "y" [] c = "Z" -> "z" [] OTHER -> c

\* str.lower().
Lower(s) == [i \in 1..Len(s) |-> LowerChar(s[i])]

\* sub in s, for str.
Contains(sub, s) ==
    \E i \in 1..(Len(s) - Len(sub) + 1) : SubSeq(s, i, i + Len(sub) - 1) = sub

\* str.replace(old, new), old not empty: every occurrence, left to right.
RECURSIVE Replace(_, _, _)
Replace(s, old, new) ==
    IF Len(s) < Len(old) THEN s
    ELSE IF SubSeq(s, 1, Len(old)) = old
         THEN new \o Replace(SubSeq(s, Len(old) + 1, Len(s)), old, new)
         ELSE <<Head(s)>> \o Replace(Tail(s), old, new)

\* str.split(sep) for a one-character sep.
RECURSIVE Split(_, _)
Split(s, sep) ==
    IF \A i \in 1..Len(s) : s[i] # sep THEN <<s>>
    ELSE LET i == CHOOSE j \in 1..Len(s) :
                      s[j] = sep /\ \A l \in 1..(j - 1) : s[l] # sep
         IN  <<SubSeq(s, 1, i - 1)>> \o Split(SubSeq(s, i + 1, Len(s)), sep)

\* str.strip(): leading and trailing whitespace removed.
RECURSIVE LStrip(_)
LStrip(s) == IF s # <<>> /\ Head(s) = " " THEN LStrip(Tail(s)) ELSE s

RECURSIVE RStrip(_)
RStrip(s) ==
    IF s # <<>> /\ s[Len(s)] = " " THEN RStrip(SubSeq(s, 1, Len(s) - 1)) ELSE s

Strip(s) == RStrip(LStrip(s))

\* The value of a digit string.
RECURSIVE DigitsVal(_)
DigitsVal(s) ==
    IF s = <<>> THEN 0
    ELSE 10 * DigitsVal(SubSeq(s, 1, Len(s) - 1)) + DigitVal(s[Len(s)])

RECURSIVE Pow10(_)
Pow10(n) == IF n = 0 THEN 1 ELSE 10 * Pow10(n - 1)

AllDigits(s) == \A i \in 1..Len(s) : s[i] \in Digits

\* Python float(str): [ok |-> FALSE] stands for ValueError.  Accepted: optional
\* surrounding whitespace, an optional sign, then "nan", "inf" or "infinity" in
\* any case, or decimal digits with at most one point and at least one digit.
\* (Exponents and underscores need characters no input of the model holds.)
ParseFloat(raw) ==
    LET t == Strip(raw)
        signed == t # <<>> /\ Head(t) \in {"+", "-"}
        sign == IF signed /\ Head(t) = "-" THEN -1 ELSE 1
        body == IF signed THEN Tail(t) ELSE t
        low == Lower(body)
        parts == Split(body, ".")
        ip == parts[1]
        fp == IF Len(parts) = 2 THEN parts[2] ELSE <<>>
    IN  IF low = <<"n", "a", "n">> THEN [ok |-> TRUE, val |-> NaN]
        ELSE IF low = <<"i", "n", "f">>
                \/ low = <<"i", "n", "f", "i", "n", "i", "t", "y">>
        THEN [ok |-> TRUE, val |-> Inf(sign)]
        ELSE IF /\ Len(parts) <= 2
                /\ AllDigits(ip) /\ AllDigits(fp)
                /\ Len(ip) + Len(fp) >= 1
        THEN [ok |-> TRUE,
              val |-> Num(sign * (DigitsVal(ip) * Scale
                                  + (DigitsVal(fp) * Scale) \div Pow10(Len(fp))))]
        ELSE [ok |-> FALSE, val |-> Num(0)]

\* Python int(str): optional whitespace and sign, then decimal digits.
ParseInt(raw) ==
    LET t == Strip(raw)
        signed == t # <<>> /\ Head(t) \in {"+", "-"}
        sign == IF signed /\ Head(t) = "-" THEN -1 ELSE 1
        body == IF signed THEN Tail(t) ELSE t
    IN  IF body # <<>> /\ AllDigits(body)
        THEN [ok |-> TRUE, val |-> sign * DigitsVal(body)]
        ELSE [ok |-> FALSE, val |-> 0]

\* ------------------------------------------------------------ score helpers
\* The range parse_temp_range falls back to.
DefaultRange == <<Num(0), Num(50 * Scale)>>

\* The characters parse_temp_range removes or normalises before splitting.
CleanTemp(s) ==
    Replace(Replace(Replace(Replace(s,
        <<"deg", "C">>, <<>>), <<"C">>, <<>>), <<" ">>, <<>>), <<"endash">>, <<"-">>)

\* The try body of parse_temp_range: (float(parts[0]), float(parts[1])), or the
\* ValueError float() raises.
FloatPair(parts) ==
    IF ParseFloat(parts[1]).ok /\ ParseFloat(parts[2]).ok
    THEN [exc |-> "none", val |-> <<ParseFloat(parts[1]).val, ParseFloat(parts[2]).val>>]
    ELSE [exc |-> "ValueError", val |-> DefaultRange]

\* A mutant of parse_temp_range: the ValueError of float() is not caught.
parse_temp_range_uncaught(s) ==
    IF s = <<>> THEN [exc |-> "none", val |-> DefaultRange]
    ELSE LET parts == Split(CleanTemp(s), "-")
         IN  IF Len(parts) # 2 THEN [exc |-> "none", val |-> DefaultRange]
             ELSE FloatPair(parts)

\* app.py parse_temp_range: [exc, val], exc the exception that leaves the
\* function ("none": it returns val, a pair of floats).
parse_temp_range(s) ==
    IF s = <<>> THEN [exc |-> "none", val |-> DefaultRange]
    ELSE LET parts == Split(CleanTemp(s), "-")
         IN  IF Len(parts) # 2 THEN [exc |-> "none", val |-> DefaultRange]
             ELSE IF FloatPair(parts).exc = "ValueError"
                  THEN [exc |-> "none", val |-> DefaultRange]
                  ELSE FloatPair(parts)

\* A mutant of temp_score: the penalty rounded to nearest instead of truncated.
temp_score_rounded(temp_c, ideal_min, ideal_max) ==
    IF ideal_min <= temp_c /\ temp_c <= ideal_max THEN 100
    ELSE LET d == IF temp_c < ideal_min THEN ideal_min - temp_c
                  ELSE temp_c - ideal_max
         IN  IntOf(clamp(100 * Scale - d * 8, 0, 100 * Scale) + Scale \div 2)

\* A mutant of temp_score: a penalty of 10 points per degree.
temp_score_penalty10(temp_c, ideal_min, ideal_max) ==
    IF ideal_min <= temp_c /\ temp_c <= ideal_max THEN 100
    ELSE LET d == IF temp_c < ideal_min THEN ideal_min - temp_c
                  ELSE temp_c - ideal_max
         IN  IntOf(clamp(100 * Scale - d * 10, 0, 100 * Scale))

\* app.py temp_score on finite floats, all three in units of 1/Scale.
temp_score(temp_c, ideal_min, ideal_max) ==
    IF ideal_min <= temp_c /\ temp_c <= ideal_max THEN 100
    ELSE LET d == IF temp_c < ideal_min THEN ideal_min - temp_c
                  ELSE temp_c - ideal_max
         IN  IntOf(clamp(100 * Scale - d * 8, 0, 100 * Scale))

\* A mutant of risk_from_score: strict thresholds.
risk_from_score_strict(total) ==
    IF total > 75 THEN <<"Good", "success">>
    ELSE IF total > 50 THEN <<"Moderate", "warning">>
    ELSE <<"Risk", "danger">>

\* app.py risk_from_score.
risk_from_score(total) ==
    IF total >= 75 THEN <<"Good", "success">>
    ELSE IF total >= 50 THEN <<"Moderate", "warning">>
    ELSE <<"Risk", "danger">>

\* A mutant of TotalScores: the water term counts the shortfall from 100.
TotalScoresWaterInverted(weather, soil, nutrient, water) ==
    RoundTenths(clamp(4 * weather + 3 * soil + 2 * nutrient + (100 - water), 0, 1000))

\* weather_check's total_score, int(round(clamp(0.40*weather + 0.30*soil +
\* 0.20*nutrient + 0.10*water, 0, 100))): the values the build can compute.  The
\* sum is taken in tenths.
TotalScores(weather, soil, nutrient, water) ==
    RoundTenths(clamp(4 * weather + 3 * soil + 2 * nutrient + water, 0, 1000))

\* ---------------------------------------------------------- state and inputs
\* Flask's session: user_id 0 and username <<>> stand for an absent key.
NoSession == [user_id |-> 0, username |-> <<>>]

NoRequest == [route |-> "none"]

\* weather_result = None / recommendation = None in a response.
NoWeatherResult ==
    [present |-> FALSE, temp_c |-> 0, total_score |-> 0, risk_label |-> "",
     risk_color |-> "", breakdown |-> <<0, 0, 0, 0>>]

NoResponse ==
    [kind |-> "none", to |-> "", flash |-> "", category |-> "",
     weather_result |-> NoWeatherResult]

NoCall == [fn |-> "none"]

\* create_app: db.create_all() on an empty database, no session.
InitApp ==
    /\ users = <<>>
    /\ session = NoSession
    /\ campaigns = <<>>
    /\ investments = <<>>
    /\ request = NoRequest
    /\ response = NoResponse
    /\ inflight = <<>>

appvars == <<users, session, campaigns, investments, request, response, inflight>>

\* optimal_temp strings of the crop knowledge base (data/crop_data.json is data,
\* not code): low, separator, high, suffix, and the malformed ones.
TempLows == {<<"1", "0">>, <<"2", "0">>, <<"2", "0", ".", "5">>, <<"3", "0">>,
             <<>>, <<"N", "/", "A">>}
TempSeps == {<<"-">>, <<"endash">>, <<" ", "-", " ">>, <<"/">>, <<>>}
TempHighs == {<<"2", "0", ".", "5">>, <<"3", "0">>, <<"N", "/", "A">>}
TempSuffixes == {<<>>, <<"deg", "C">>, <<"C">>, <<" ", "deg", "C">>}

OptimalTemps ==
    {lo \o sep \o hi \o suf :
        lo \in TempLows, sep \in TempSeps, hi \in TempHighs, suf \in TempSuffixes}
    \cup {<<>>, <<"N", "/", "A">>, <<"1", "0">>,
          <<"1", "0", "-", "2", "0", "-", "3", "0">>,
          <<"-", "5", "-", "1", "0">>,
          <<"deg", "C">>, <<" ">>, <<"-">>}

\* The finite ranges parse_temp_range yields on them.
ParsedRanges ==
    {r \in {parse_temp_range(s).val : s \in OptimalTemps} :
        r[1].k = "num" /\ r[2].k = "num"}

\* --------------------------------------------- the score helpers, called alone
\* Each behaviour of a helper specification is one call: the inputs are drawn
\* and the helper applied to them.
CallParseTempRange ==
    /\ call = NoCall
    /\ \E s \in OptimalTemps :
           call' = [fn |-> "parse_temp_range", s |-> s, ret |-> parse_temp_range(s)]
    /\ UNCHANGED appvars

CallTempScore ==
    /\ call = NoCall
    /\ \E r \in ParsedRanges :
         \E temp_c \in (Min(r[1].v, r[2].v) - TempMargin * Scale)
                           ..(Max(r[1].v, r[2].v) + TempMargin * Scale) :
           call' = [fn |-> "temp_score", temp_c |-> temp_c,
                    ideal_min |-> r[1].v, ideal_max |-> r[2].v,
                    ret |-> temp_score(temp_c, r[1].v, r[2].v)]
    /\ UNCHANGED appvars

InitTemp == InitApp /\ call = NoCall

NextTemp == CallParseTempRange \/ CallTempScore

SpecTemp == InitTemp /\ [][NextTemp]_vars

\* ------------------------------------------------------------- C1, C2, C7
\* The distance of a temp_score call's temperature from the nearer bound of its
\* range, in units of 1/Scale (0 inside the range).
CallDistance ==
    IF call.temp_c < call.ideal_min THEN call.ideal_min - call.temp_c
    ELSE IF call.temp_c > call.ideal_max THEN call.temp_c - call.ideal_max
    ELSE 0

TempScoreCalled == call.fn = "temp_score" /\ call.ideal_min <= call.ideal_max

\* C1 as stated: for idealMin <= idealMax, temp_score is 100 inside the range
\* (bounds included) and otherwise exactly 100 - 8*d clamped to [0,100], d the
\* distance to the nearer bound.
C1_AsStated ==
    TempScoreCalled =>
        call.ret * Scale = clamp(100 * Scale - 8 * CallDistance, 0, 100 * Scale)

\* C1 amended: for idealMin <= idealMax, temp_score is 100 inside the range
\* (bounds included) and otherwise the integer part of 100 - 8*d clamped to
\* [0,100] (truncated toward zero), which is exactly 100 - 8*d when 8*d is a whole
\* number; a 1-degree deviation on either side yields 92.
C1_TempScoreTruncated ==
    TempScoreCalled =>
        LET exact == clamp(100 * Scale - 8 * CallDistance, 0, 100 * Scale)
        IN  /\ call.ret \in 0..100
            /\ call.ret * Scale <= exact
            /\ exact < (call.ret + 1) * Scale
            /\ (CallDistance = 0 => call.ret = 100)
            /\ (CallDistance = Scale => call.ret = 92)

\* A call outside the range at a distance whose penalty is not a whole number.
C1_Witness ==
    /\ TempScoreCalled
    /\ CallDistance > 0
    /\ (8 * CallDistance) % Scale # 0
    /\ call.ret > 0
    /\ call.ret < 100

IsNumericToken(tok) == ParseFloat(tok).ok

\* Whether an optimal_temp string, cleaned, splits on "-" into two numeric tokens.
TwoNumericTokens(s) ==
    LET parts == Split(CleanTemp(s), "-")
    IN  Len(parts) = 2 /\ IsNumericToken(parts[1]) /\ IsNumericToken(parts[2])

\* C7: parse_temp_range raises on no string; the empty string and every string
\* that does not clean and split into exactly two numeric tokens ("", "N/A", "10"
\* among them) give the default range (0, 50).
C7_ParseFallsBack ==
    call.fn = "parse_temp_range" =>
        /\ call.ret.exc = "none"
        /\ (call.s = <<>> \/ ~TwoNumericTokens(call.s)) =>
               call.ret.val = <<Num(0), Num(50 * Scale)>>
        /\ call.s \in {<<>>, <<"N", "/", "A">>, <<"1", "0">>} =>
               call.ret.val = <<Num(0), Num(50 * Scale)>>

\* A call on a string with two tokens of which one is not numeric.
C7_Witness ==
    /\ call.fn = "parse_temp_range"
    /\ Len(Split(CleanTemp(call.s), "-")) = 2
    /\ ~TwoNumericTokens(call.s)
    /\ call.ret.val = <<Num(0), Num(50 * Scale)>>

\* ------------------------------------------- the composite score, called alone
SubScores == {x \in 0..100 : x % ScoreStep = 0}
WaterScores == {x \in 0..100 : x % WaterStep = 0}

CompositeCall(weather, soil, nutrient, water, total) ==
    [fn |-> "total_score", weather_component |-> weather, soil_component |-> soil,
     nutrient_component |-> nutrient, water_component |-> water,
     total_score |-> total,
     risk_label |-> risk_from_score(total)[1],
     risk_color |-> risk_from_score(total)[2]]

\* The composite of weather_check (total_score, then risk_from_score), first on
\* the least sub-scores.
InitComposite ==
    /\ InitApp
    /\ \E total \in TotalScores(0, 0, 0, 0) : call = CompositeCall(0, 0, 0, 0, total)

\* The same composite with one sub-score raised and the other three kept.
RaiseWeather ==
    /\ call.weather_component + 1 <= 100
    /\ \E total \in TotalScores(call.weather_component + 1, call.soil_component,
                                call.nutrient_component, call.water_component) :
         call' = CompositeCall(call.weather_component + 1, call.soil_component,
                               call.nutrient_component, call.water_component, total)
    /\ UNCHANGED appvars

RaiseSoil ==
    /\ call.soil_component + ScoreStep <= 100
    /\ \E total \in TotalScores(call.weather_component, call.soil_component + ScoreStep,
                                call.nutrient_component, call.water_component) :
         call' = CompositeCall(call.weather_component, call.soil_component + ScoreStep,
                               call.nutrient_component, call.water_component, total)
    /\ UNCHANGED appvars

RaiseNutrient ==
    /\ call.nutrient_component + ScoreStep <= 100
    /\ \E total \in TotalScores(call.weather_component, call.soil_component,
                                call.nutrient_component + ScoreStep,
                                call.water_component) :
         call' = CompositeCall(call.weather_component, call.soil_component,
                               call.nutrient_component + ScoreStep,
                               call.water_component, total)
    /\ UNCHANGED appvars

RaiseWater ==
    /\ call.water_component + WaterStep <= 100
    /\ \E total \in TotalScores(call.weather_component, call.soil_component,
                                call.nutrient_component,
                                call.water_component + WaterStep) :
         call' = CompositeCall(call.weather_component, call.soil_component,
                               call.nutrient_component,
                               call.water_component + WaterStep, total)
    /\ UNCHANGED appvars

NextComposite == RaiseWeather \/ RaiseSoil \/ RaiseNutrient \/ RaiseWater

SpecComposite == InitComposite /\ [][NextComposite]_vars

\* ------------------------------------------------------------------ C4, C5
\* C4: the composite total is an integer in [0,100], and raising one sub-score
\* with the other three held fixed never lowers it.
C4_CompositeMonotone ==
    [][/\ call'.total_score \in 0..100
       /\ (/\ call'.weather_component >= call.weather_component
           /\ call'.soil_component >= call.soil_component
           /\ call'.nutrient_component >= call.nutrient_component
           /\ call'.water_component >= call.water_component)
          => call'.total_score >= call.total_score]_vars

\* A composite whose weighted sum lies on a half and was rounded up, with every
\* sub-score above its least value.
C4_Witness ==
    /\ call.fn = "total_score"
    /\ call.weather_component > 0 /\ call.soil_component > 0
    /\ call.nutrient_component > 0 /\ call.water_component > 0
    /\ (4 * call.weather_component + 3 * call.soil_component
        + 2 * call.nutrient_component + call.water_component) % 10 = 5
    /\ 10 * call.total_score > 4 * call.weather_component + 3 * call.soil_component
                               + 2 * call.nutrient_component + call.water_component

\* C5: for every total in 0..100 the label is "Good"/success iff total >= 75,
\* "Moderate"/warning iff 50 <= total < 75, "Risk"/danger iff total < 50.
C5_RiskLabel ==
    call.fn = "total_score" =>
        LET total == call.total_score
            out == <<call.risk_label, call.risk_color>>
        IN  /\ out \in {<<"Good", "success">>, <<"Moderate", "warning">>,
                        <<"Risk", "danger">>}
            /\ (out = <<"Good", "success">>) <=> (total >= 75)
            /\ (out = <<"Moderate", "warning">>) <=> (50 <= total /\ total < 75)
            /\ (out = <<"Risk", "danger">>) <=> (total < 50)
            /\ (total = 75 => call.risk_label = "Good")
            /\ (total \in {74, 50} => call.risk_label = "Moderate")
            /\ (total = 49 => call.risk_label = "Risk")

\* The four boundary totals have been labelled.
C5_Witness ==
    /\ call.fn = "total_score"
    /\ call.total_score = 50
    /\ call.risk_label = "Moderate"

\* ================================================================ the routes
\* request.form: a field is [present, val]; request.form.get(key, default).
Field(val) == [present |-> TRUE, val |-> val]
Missing == [present |-> FALSE, val |-> <<>>]
FormGet(field, default) == IF field.present THEN field.val ELSE default

\* A nullable column: [null, val].
Null(val) == [null |-> TRUE, val |-> val]
NotNull(val) == [null |-> FALSE, val |-> val]

\* SQLite binds a NaN as NULL, so committing a row that holds one in a
\* nullable=False Float column (FundCampaign.target_amount, Investment.amount)
\* raises IntegrityError and the transaction is rolled back.
BindsNull(x) == x.k = "nan"

Redirect(to, flash, category) ==
    [kind |-> "redirect", to |-> to, flash |-> flash, category |-> category,
     weather_result |-> NoWeatherResult]

Render(template, flash, category, weather_result) ==
    [kind |-> "render", to |-> template, flash |-> flash, category |-> category,
     weather_result |-> weather_result]

\* An exception that leaves the view function: Flask answers 500 (404 for abort).
Raised(exception) ==
    [kind |-> "exception", to |-> exception, flash |-> "", category |-> "",
     weather_result |-> NoWeatherResult]

\* app.py is_logged_in.
is_logged_in == session.user_id # 0

LoginFirst == Redirect("index", "Please login first.", "warning")

\* ------------------------------------------------------------------- auth
\* The signup forms: a complete one, and the same with one field changed.
GoodSignup ==
    [username |-> <<" ", "b", "o", "b", " ">>, password |-> <<"p", "a", "s", "s">>, full_name |-> <<"B">>,
     phone |-> <<"9", "8">>, province |-> <<"P">>, district |-> <<"D">>,
     municipality |-> <<"M">>, farm_size_ropani |-> <<"2", ".", "5">>,
     experience_years |-> <<"3">>, primary_crops |-> <<>>]

SignupForms ==
    {GoodSignup,
     [GoodSignup EXCEPT !.username = <<"a", "l">>],
     [GoodSignup EXCEPT !.password = <<"a", "b", "c">>],
     [GoodSignup EXCEPT !.province = <<" ">>]}

\* User.query.filter_by(username=...).first(): the id of the first such row, or 0.
FindUser(username) ==
    IF \E i \in 1..Len(users) : users[i].username = username
    THEN CHOOSE i \in 1..Len(users) :
             /\ users[i].username = username
             /\ \A j \in 1..(i - 1) : users[j].username # username
    ELSE 0

\* The row signup adds for a form.
NewUser(form) ==
    LET farm_size_ropani == Strip(form.farm_size_ropani)
        experience_years == Strip(form.experience_years)
        primary_crops == Strip(form.primary_crops)
    IN  [username |-> Strip(form.username),
         \* check_password_hash(generate_password_hash(p), q) iff p = q
         password_hash |-> Strip(form.password),
         full_name |-> Strip(form.full_name), phone |-> Strip(form.phone),
         province |-> Strip(form.province), district |-> Strip(form.district),
         municipality |-> Strip(form.municipality),
         farm_size_ropani |->
             IF farm_size_ropani # <<>> /\ ParseFloat(farm_size_ropani).ok
             THEN NotNull(ParseFloat(farm_size_ropani).val) ELSE Null(Num(0)),
         experience_years |->
             IF experience_years # <<>> /\ ParseInt(experience_years).ok
             THEN NotNull(ParseInt(experience_years).val) ELSE Null(0),
         primary_crops |-> IF primary_crops = <<>> THEN Null(<<>>)
                           ELSE NotNull(primary_crops)]

\* POST /signup.
signup ==
    \E form \in SignupForms :
      LET user == NewUser(form)
          rejected ==
              IF Len(user.username) < 3
              THEN Redirect("index", "Username must be at least 3 characters.", "danger")
              ELSE IF Len(user.password_hash) < 4
              THEN Redirect("index", "Password must be at least 4 characters.", "danger")
              ELSE IF user.full_name = <<>> \/ user.phone = <<>>
              THEN Redirect("index", "Full name and phone are required.", "danger")
              ELSE IF user.province = <<>> \/ user.district = <<>>
                      \/ user.municipality = <<>>
              THEN Redirect("index", "Please complete your location details.", "danger")
              ELSE IF FindUser(user.username) # 0
              THEN Redirect("index", "Username already exists.", "warning")
              ELSE NoResponse
      IN  /\ request' = [route |-> "signup", username |-> form.username]
          /\ IF rejected # NoResponse
             THEN /\ response' = rejected
                  /\ UNCHANGED users
             ELSE /\ users' = Append(users, user)
                  /\ response' = Redirect("index",
                                     "Farmer account created. Please login.", "success")
          /\ UNCHANGED <<session, campaigns, investments, call, inflight>>

LoginForms ==
    {[username |-> <<"b", "o", "b", " ">>, password |-> <<"p", "a", "s", "s">>],
     [username |-> <<"b", "o", "b", " ">>, password |-> <<"w", "o", "r", "d">>],
     [username |-> <<"a", "m", "y">>, password |-> <<"p", "a", "s", "s">>]}

\* POST /login.
login ==
    \E form \in LoginForms :
      LET username == Strip(form.username)
          password == Strip(form.password)
          uid == FindUser(username)
      IN  /\ request' = [route |-> "login", username |-> form.username]
          /\ IF uid = 0
             THEN /\ response' = Redirect("index", "User not found. Please sign up.",
                                          "danger")
                  /\ UNCHANGED session
             ELSE IF users[uid].password_hash # password
             THEN /\ response' = Redirect("index", "Wrong password.", "danger")
                  /\ UNCHANGED session
             ELSE /\ session' = [user_id |-> uid, username |-> users[uid].username]
                  /\ response' = Redirect("dashboard", "Logged in", "success")
          /\ UNCHANGED <<users, campaigns, investments, call, inflight>>

\* GET /logout.
logout ==
    /\ request' = [route |-> "logout"]
    /\ session' = NoSession
    /\ response' = Redirect("index", "Logged out.", "info")
    /\ UNCHANGED <<users, campaigns, investments, call, inflight>>

\* ---------------------------------------------------------------- fund hub
\* create_fund's suspicious_keywords, in order.
suspicious_keywords ==
    <<<<"g", "u", "a", "r", "a", "n", "t", "e", "e", "d">>, <<"d", "o", "u", "b", "l", "e", " ", "m", "o", "n", "e", "y">>, <<"r", "i", "s", "k", " ", "f", "r", "e", "e">>, <<"1", "0", "0", "%", " ", "p", "r", "o", "f", "i", "t">>,
      <<"i", "n", "s", "t", "a", "n", "t", " ", "r", "e", "t", "u", "r", "n">>>>

\* The keyword loop of create_fund: 25 for every keyword in desc_lower.
RECURSIVE KeywordSum(_, _)
KeywordSum(desc_lower, n) ==
    IF n = 0 THEN 0
    ELSE KeywordSum(desc_lower, n - 1)
         + (IF Contains(suspicious_keywords[n], desc_lower) THEN 25 ELSE 0)

\* A mutant of risk_score_of: the description is not lowercased.
risk_score_of_cased(description) ==
    clamp(KeywordSum(description, Len(suspicious_keywords)), 0, 100)

\* create_fund's risk_score of a description.
risk_score_of(description) ==
    clamp(KeywordSum(Lower(description), Len(suspicious_keywords)), 0, 100)

\* create_fund's trust_label of a risk_score.
trust_label_of(risk_score) ==
    IF risk_score = 0 THEN "High Trust"
    ELSE IF risk_score <= 25 THEN "Moderate Risk"
    ELSE "High Risk"

\* A mutant of TargetAmount: an unparseable amount counts as 1.
TargetAmountLenient(field) ==
    LET raw == FormGet(field, <<"0">>)
    IN  IF raw = <<>> THEN Num(0)
        ELSE IF ParseFloat(raw).ok THEN ParseFloat(raw).val ELSE Num(Scale)

\* create_fund's target_amount: float(form.get("target_amount", "0") or 0), and
\* 0 on ValueError.
TargetAmount(field) ==
    LET raw == FormGet(field, <<"0">>)
    IN  IF raw = <<>> THEN Num(0)
        ELSE IF ParseFloat(raw).ok THEN ParseFloat(raw).val ELSE Num(0)

\* create_fund's duration_days: int(form.get("duration_days", "30") or 30), and
\* 30 on ValueError.
DurationDays(field) ==
    LET raw == FormGet(field, <<"3", "0">>)
    IN  IF raw = <<>> THEN 30
        ELSE IF ParseInt(raw).ok THEN ParseInt(raw).val ELSE 30

\* The row create_fund adds for a form.
NewCampaign(user_id, form) ==
    [user_id |-> user_id, title |-> Strip(form.title),
     description |-> Strip(form.description),
     target_amount |-> TargetAmount(form.target_amount),
     raised_amount |-> Num(0),
     duration_days |-> DurationDays(form.duration_days),
     risk_score |-> risk_score_of(Strip(form.description)),
     trust_label |-> trust_label_of(risk_score_of(Strip(form.description)))]

\* POST /create-fund, the form drawn from forms, at most maxc campaigns stored.
create_fund(forms, maxc) ==
    \E form \in forms :
      LET invalid == \/ Strip(form.title) = <<>>
                     \/ Strip(form.description) = <<>>
                     \/ FLeqZero(TargetAmount(form.target_amount))
          target_amount == TargetAmount(form.target_amount)
      IN  /\ (is_logged_in /\ ~invalid /\ ~BindsNull(target_amount))
                 => Len(campaigns) < maxc
          /\ request' = [route |-> "create_fund", form |-> form]
          /\ IF ~is_logged_in
             THEN /\ response' = LoginFirst
                  /\ UNCHANGED campaigns
             ELSE IF invalid
             THEN /\ response' = Redirect("fund_page",
                        "Please fill title, description, and a valid target amount.",
                        "danger")
                  /\ UNCHANGED campaigns
             ELSE IF BindsNull(target_amount)
             THEN /\ response' = Raised("IntegrityError")
                  /\ UNCHANGED campaigns
             ELSE /\ campaigns' = Append(campaigns,
                                         NewCampaign(session.user_id, form))
                  /\ response' = Redirect("fund_page", "Campaign created", "success")
          /\ UNCHANGED <<users, session, investments, call, inflight>>

\* A mutant of InvestedCampaign: the campaign is scored again on its new total.
InvestedCampaignRescored(campaign, amount) ==
    [campaign EXCEPT !.raised_amount = FAdd(campaign.raised_amount, amount),
                     !.risk_score = 0, !.trust_label = trust_label_of(0)]

\* invest's update of the campaign row:
\* campaign.raised_amount = float(campaign.raised_amount or 0) + amount.
InvestedCampaign(campaign, amount) ==
    [campaign EXCEPT !.raised_amount = FAdd(campaign.raised_amount, amount)]

\* POST /invest/<int:campaign_id>, the form drawn from forms.
invest(forms) ==
    \E campaign_id \in 1..(Len(campaigns) + 1), form \in forms :
      LET amount_raw == Strip(FormGet(form.amount, <<>>))
          amount == ParseFloat(amount_raw)
          inv == [campaign_id |-> campaign_id, investor_id |-> session.user_id,
                  amount |-> amount.val]
          found == campaign_id \in 1..Len(campaigns)
          stored == /\ is_logged_in /\ amount.ok /\ ~FLeqZero(amount.val)
                    /\ found /\ ~BindsNull(amount.val)
      IN  /\ stored => Len(investments) < MaxInvestments
          /\ request' = [route |-> "invest", campaign_id |-> campaign_id,
                         form |-> form]
          /\ IF ~is_logged_in
             THEN /\ response' = LoginFirst
                  /\ UNCHANGED <<campaigns, investments>>
             ELSE IF ~amount.ok
             THEN /\ response' = Redirect("fund_page", "Invalid amount.", "danger")
                  /\ UNCHANGED <<campaigns, investments>>
             ELSE IF FLeqZero(amount.val)
             THEN /\ response' = Redirect("fund_page",
                                     "Investment must be greater than 0.", "danger")
                  /\ UNCHANGED <<campaigns, investments>>
             ELSE IF ~found
             THEN /\ response' = Raised("404 Not Found")
                  /\ UNCHANGED <<campaigns, investments>>
             ELSE IF BindsNull(amount.val)
             THEN /\ response' = Raised("IntegrityError")
                  /\ UNCHANGED <<campaigns, investments>>
             ELSE /\ campaigns' = [campaigns EXCEPT ![campaign_id] =
                                       InvestedCampaign(campaigns[campaign_id],
                                                        amount.val)]
                  /\ investments' = Append(investments, inv)
                  /\ response' = Redirect("fund_page", "Investment successful",
                                          "success")
          /\ UNCHANGED <<users, session, call, inflight>>

\* ---------------------------------------------------------- weather check
\* load_crop_data: data/crop_data.json is data of the deployment; these profiles
\* stand for it (soil list, required Nitrogen level, optimal_temp string).
CropData ==
    [Rice |-> [soil |-> {<<"C", "l", "a", "y">>, <<"L", "o", "a", "m", "y">>}, Nitrogen |-> <<"H", "i", "g", "h">>,
               optimal_temp |-> <<"2", "0", "-", "3", "0", "deg", "C">>],
     Wheat |-> [soil |-> {<<"L", "o", "a", "m", "y">>}, Nitrogen |-> <<"M", "e", "d", "i", "u", "m">>,
                optimal_temp |-> <<"2", "0", "-", "3", "0">>],
     Maize |-> [soil |-> {<<"L", "o", "a", "m", "y">>, <<"S", "a", "n", "d", "y">>}, Nitrogen |-> <<"H", "i", "g", "h">>,
                optimal_temp |-> <<"N", "/", "A">>]]

\* fetch_weather: the JSON of a 200 answer ("ok"), or the exception requests
\* raises: HTTPError from raise_for_status, ConnectionError or Timeout from get.
FetchOutcomes == {"ok", "HTTPError", "ConnectionError", "Timeout"}

\* weather_check's soil_component.
soil_component_of(soil_ok) == IF soil_ok THEN 100 ELSE 30

\* weather_check's nutrient_component.
nutrient_component_of(nutrient_ok) == IF nutrient_ok THEN 100 ELSE 40

\* w["rain"].get("1h", 0.0) or 0.0, when w has a "rain" dict; 0.0 otherwise.
rain_mm_of(rain) == IF rain.present /\ rain.has1h THEN rain.mm ELSE 0

\* A mutant of water_component_of: humidity must exceed 60.
water_component_strict(rain_mm, humidity) ==
    IF rain_mm > 0 \/ humidity > 60 * Scale THEN 90 ELSE 50

\* weather_check's water_component; rain_mm and humidity in units of 1/Scale.
water_component_of(rain_mm, humidity) ==
    IF rain_mm > 0 \/ humidity >= 60 * Scale THEN 90 ELSE 50

\* round(temp_c, 1), in tenths of a degree: the nearest tenth, a tie to even.
Round1(temp_c) ==
    LET n == temp_c * 10
        q == n \div Scale
        r == n % Scale
    IN  IF 2 * r < Scale THEN q
        ELSE IF 2 * r > Scale THEN q + 1
        ELSE IF q % 2 = 0 THEN q ELSE q + 1

\* POST /weather-check/<crop_name>: the crop name, the form and what
\* fetch_weather does are drawn from inputs.
weather_check(inputs) ==
    \E in \in inputs :
      LET found == in.crop_name \in DOMAIN CropData
          crop == CropData[in.crop_name]
          soil_type == Strip(in.soil_type)
          nutrient_level == Strip(in.nutrient_level)
          temp_c == in.temp_c
          humidity == IF in.humidity.present THEN in.humidity.val ELSE 50 * Scale
          range == parse_temp_range(crop.optimal_temp)
          weather_component == temp_score(temp_c, range.val[1].v, range.val[2].v)
          soil_component == soil_component_of(soil_type \in crop.soil)
          nutrient_component == nutrient_component_of(nutrient_level = crop.Nitrogen)
          water_component == water_component_of(rain_mm_of(in.rain), humidity)
      IN  /\ request' = [route |-> "weather_check", in |-> in]
          /\ IF ~is_logged_in
             THEN response' = LoginFirst
             ELSE IF ~found
             THEN response' = Redirect("upload_page", "Crop data not found.", "danger")
             ELSE IF in.fetch = "HTTPError"
             THEN response' = Render("growth.html",
                                "Weather API error. Check API key / city selection.",
                                "danger", NoWeatherResult)
             ELSE IF in.fetch # "ok"
             THEN response' = Raised(in.fetch)
             ELSE IF range.exc # "none"
             THEN response' = Raised(range.exc)
             ELSE \E total_score \in TotalScores(weather_component, soil_component,
                                                 nutrient_component, water_component),
                     b1 \in RoundTenths(4 * weather_component),
                     b2 \in RoundTenths(3 * soil_component),
                     b3 \in RoundTenths(2 * nutrient_component),
                     b4 \in RoundTenths(water_component) :
                    response' = Render("growth.html", "", "",
                        [present |-> TRUE, temp_c |-> Round1(temp_c),
                         total_score |-> total_score,
                         risk_label |-> risk_from_score(total_score)[1],
                         risk_color |-> risk_from_score(total_score)[2],
                         breakdown |-> <<b1, b2, b3, b4>>])
          /\ UNCHANGED <<users, session, campaigns, investments, call, inflight>>

WeatherPayload(temp_c, humidity, rain) ==
    [temp_c |-> temp_c, humidity |-> humidity, rain |-> rain]

\* w["main"].get("humidity", 50): the key may be absent.
NoHumidity == [present |-> FALSE, val |-> 0]
Humidity(val) == [present |-> TRUE, val |-> val]

NoRain == [present |-> FALSE, has1h |-> FALSE, mm |-> 0]
Rain1h(mm) == [present |-> TRUE, has1h |-> TRUE, mm |-> mm]
Rain3hOnly == [present |-> TRUE, has1h |-> FALSE, mm |-> 0]

\* The requests of weather_check with a failing fetch carry no payload.
WeatherInputs(crop_names, fetches, temps, humidities, rains, soils, nutrients) ==
    {in \in [crop_name : crop_names, fetch : fetches, temp_c : temps,
             humidity : humidities, rain : rains,
             soil_type : soils, nutrient_level : nutrients] :
        in.fetch # "ok" =>
            /\ in.temp_c = 25 * Scale
            /\ in.humidity = NoHumidity
            /\ in.rain = NoRain}

\* The weather requests of the application's specification.
AppWeatherInputs ==
    WeatherInputs({"Rice"}, FetchOutcomes, {25 * Scale}, {NoHumidity}, {NoRain},
                  {<<"C", "l", "a", "y">>}, {<<"H", "i", "g", "h">>})
    \cup WeatherInputs({"Mango"}, {"ok"}, {25 * Scale}, {NoHumidity}, {NoRain},
                       {<<"C", "l", "a", "y">>}, {<<"H", "i", "g", "h">>})

\* The temperatures of SpecWeather: every 5/16 of a degree from TempMargin
\* degrees below 0 to TempMargin degrees above 50, whole degrees and fractions.
WeatherTempStep == Scale \div 3

WeatherTemps ==
    {q * WeatherTempStep :
        q \in (0 - (TempMargin * Scale) \div WeatherTempStep)
                  ..(((50 + TempMargin) * Scale) \div WeatherTempStep)}

\* The weather requests of SpecWeather: rain is varied at low humidity, and an
\* unknown crop is asked for once.
AllWeatherInputs ==
    {in \in WeatherInputs({"Rice", "Wheat", "Maize"}, FetchOutcomes, WeatherTemps,
                          {NoHumidity, Humidity(40 * Scale), Humidity(60 * Scale),
                           Humidity(70 * Scale)},
                          {NoRain, Rain1h(0), Rain1h(Scale \div 2), Rain3hOnly},
                          {<<"C", "l", "a", "y">>, <<" ", "L", "o", "a", "m", "y", " ">>, <<"c", "l", "a", "y">>}, {<<"H", "i", "g", "h">>, <<"M", "e", "d", "i", "u", "m">>}) :
        in.rain # NoRain => in.humidity = Humidity(40 * Scale)}
    \cup WeatherInputs({"Mango"}, {"ok"}, {25 * Scale}, {NoHumidity}, {NoRain},
                       {<<"C", "l", "a", "y">>}, {<<"H", "i", "g", "h">>})

\* --------------------------------------------------------- specifications
FundForms(titles, descriptions, targets, durations) ==
    [title : titles, description : descriptions, target_amount : targets,
     duration_days : durations]

CleanDescription == <<"S", "e", "e", "d", "s", " ", "f", "o", "r", " ", "m", "y", " ", "f", "a", "r", "m">>
ScamDescription == <<"G", "u", "a", "r", "a", "n", "t", "e", "e", "d", " ", "1", "0", "0", "%", " ", "p", "r", "o", "f", "i", "t", ",", " ", "r", "i", "s", "k", " ", "f", "r", "e", "e">>

\* The campaign forms of the application's specification: complete ones, and
\* one with a field missing or invalid at a time.
GoodFund ==
    [title |-> <<"T">>, description |-> CleanDescription,
     target_amount |-> Field(<<"1", "0", "0", "0">>), duration_days |-> Missing]

AppFundForms ==
    {GoodFund,
     [GoodFund EXCEPT !.description = ScamDescription,
                      !.duration_days = Field(<<"6", "0">>)],
     [GoodFund EXCEPT !.target_amount = Field(<<"a", "b", "c">>)]}

\* The investment forms of the application's specification.
AppInvestForms == [amount : {Field(<<" ", "5", "0", " ">>), Field(<<"a", "b", "c">>)}]

Init == InitApp /\ call = NoCall

Next ==
    \/ signup
    \/ login
    \/ logout
    \/ create_fund(AppFundForms, MaxCampaigns)
    \/ invest(AppInvestForms)
    \/ weather_check(AppWeatherInputs)

Spec == Init /\ [][Next]_vars

\* ------------------------------------- single requests on a prepared database
\* The row of the user GoodSignup creates, and the session login gives them.
BobUser == NewUser(GoodSignup)
BobSession == [user_id |-> 1, username |-> BobUser.username]

ScamFund ==
    [GoodFund EXCEPT !.description = ScamDescription, !.duration_days = Field(<<"6", "0">>)]

\* Descriptions: each suspicious phrase absent, in lower case or capitalised,
\* after a neutral opening; and near misses.
KeywordVariant(n, v) ==
    CASE v = 0 -> <<>>
      [] v = 1 -> suspicious_keywords[n] \o <<",", " ">>
      [] v = 2 -> <<<<"G", "u", "a", "r", "a", "n", "t", "e", "e", "d">>, <<"D", "O", "U", "B", "L", "E", " ", "M", "O", "N", "E", "Y">>, <<"R", "i", "s", "k", " ", "F", "r", "e", "e">>, <<"1", "0", "0", "%", " ", "P", "R", "O", "F", "I", "T">>,
                    <<"I", "n", "s", "t", "a", "n", "t", " ", "R", "e", "t", "u", "r", "n">>>>[n] \o <<".", " ">>

AllDescriptions ==
    {<<"F", "a", "r", "m", ":", " ">> \o KeywordVariant(1, v[1]) \o KeywordVariant(2, v[2])
        \o KeywordVariant(3, v[3]) \o KeywordVariant(4, v[4])
        \o KeywordVariant(5, v[5]) : v \in [1..5 -> 0..2]}
    \cup {CleanDescription, ScamDescription,
          <<"g", "u", "a", "r", "a", "n", "t", "e", "e">>, <<"r", "i", "s", "k", "-", "f", "r", "e", "e", " ", "r", "e", "t", "u", "r", "n", "s">>, <<"r", "i", "s", "k", "f", "r", "e", "e">>, <<"1", "0", "0", " ", "%", " ", "p", "r", "o", "f", "i", "t">>,
          <<"d", "o", "u", "b", "l", "e", " ", " ", "m", "o", "n", "e", "y">>, <<"i", "n", "s", "t", "a", "n", "t", "r", "e", "t", "u", "r", "n">>, <<"u", "n", "g", "u", "a", "r", "a", "n", "t", "e", "e", "d", "l", "y">>,
          <<"d", "o", "u", "b", "l", "e", "m", "o", "n", "e", "y", " ", "g", "u", "a", "r", "a", "n", "t", "e", "e", "d">>}

\* The campaign forms of SpecFund: every description on a complete form, and
\* every combination of the other fields.
AllFundForms ==
    FundForms({<<"T">>}, AllDescriptions, {Field(<<"1", "0", "0", "0">>)}, {Missing})
    \cup FundForms({<<"T">>, <<" ">>}, {CleanDescription, <<" ", " ">>},
                   {Missing, Field(<<>>), Field(<<" ">>), Field(<<"a", "b", "c">>), Field(<<"0">>),
                    Field(<<"-", "5">>), Field(<<"1", "0", "0", "0">>), Field(<<" ", "2", ".", "5", " ">>), Field(<<"n", "a", "n">>)},
                   {Missing, Field(<<>>), Field(<<"a", "b", "c">>), Field(<<"6", "0">>),
                    Field(<<"6", "0", ".", "5">>), Field(<<"-", "7">>)})

\* The investment forms of SpecFund.
AllInvestForms ==
    [amount : {Missing, Field(<<>>), Field(<<"a", "b", "c">>), Field(<<"0">>), Field(<<"-", "5">>),
               Field(<<" ", "5", "0", " ">>), Field(<<"2", "5", ".", "5">>), Field(<<"n", "a", "n">>),
               Field(<<"i", "n", "f">>)}]

\* Databases the application reaches: a user, logged in or not, and either no
\* campaign or one campaign with one investment.
InitFund ==
    /\ users = <<BobUser>>
    /\ session \in {BobSession, NoSession}
    /\ \/ campaigns = <<>> /\ investments = <<>>
       \/ /\ campaigns = <<InvestedCampaign(NewCampaign(1, ScamFund), Num(50 * Scale))>>
          /\ investments = <<[campaign_id |-> 1, investor_id |-> 1,
                              amount |-> Num(50 * Scale)]>>
    /\ request = NoRequest
    /\ response = NoResponse
    /\ call = NoCall
    /\ inflight = <<>>

\* One request to the fund hub.
NextFund ==
    /\ request = NoRequest
    /\ \/ create_fund(AllFundForms, MaxCampaigns)
       \/ invest(AllInvestForms)

SpecFund == InitFund /\ [][NextFund]_vars

InitWeather ==
    /\ users = <<BobUser>>
    /\ session = BobSession
    /\ campaigns = <<>>
    /\ investments = <<>>
    /\ request = NoRequest
    /\ response = NoResponse
    /\ call = NoCall
    /\ inflight = <<>>

\* One weather check.
NextWeather == request = NoRequest /\ weather_check(AllWeatherInputs)

SpecWeather == InitWeather /\ [][NextWeather]_vars

\* ------------------------------------------------------------------- C3
\* The sub-scores the claim gives for the weather check just answered.
C3_Weather ==
    LET crop == CropData[request.in.crop_name]
        range == parse_temp_range(crop.optimal_temp).val
    IN  temp_score(request.in.temp_c, range[1].v, range[2].v)

C3_Soil ==
    IF Strip(request.in.soil_type) \in CropData[request.in.crop_name].soil
    THEN 100 ELSE 30

C3_Nutrient ==
    IF Strip(request.in.nutrient_level) = CropData[request.in.crop_name].Nitrogen
    THEN 100 ELSE 40

C3_Water ==
    LET rain == request.in.rain
        humidity == IF request.in.humidity.present THEN request.in.humidity.val
                    ELSE 50 * Scale
    IN  IF (rain.present /\ rain.has1h /\ rain.mm > 0) \/ humidity >= 60 * Scale
        THEN 90 ELSE 50

\* C3: a scored weather check has total_score = round(0.40*weather + 0.30*soil +
\* 0.20*nutrient + 0.10*water) in [0,100], with soil 100/30, nutrient 100/40 and
\* water 90/50 as stated; 25 degrees in 20-30 with soil and nutrient matched and
\* humidity 70 gives 99 "Good", 35 degrees in 20-30 with both unmatched, humidity
\* 40 and no rain gives 46 "Risk".
C3_CompositeScore ==
    response.weather_result.present =>
        LET sum == 4 * C3_Weather + 3 * C3_Soil + 2 * C3_Nutrient + C3_Water
            total == response.weather_result.total_score
            in == request.in
        IN  /\ total \in 0..100
            /\ 10 * total - sum \in -5..5
            /\ (/\ in.temp_c = 25 * Scale
                /\ parse_temp_range(CropData[in.crop_name].optimal_temp).val
                       = <<Num(20 * Scale), Num(30 * Scale)>>
                /\ C3_Soil = 100 /\ C3_Nutrient = 100
                /\ in.humidity = Humidity(70 * Scale))
               => (total = 99 /\ response.weather_result.risk_label = "Good")
            /\ (/\ in.temp_c = 35 * Scale
                /\ parse_temp_range(CropData[in.crop_name].optimal_temp).val
                       = <<Num(20 * Scale), Num(30 * Scale)>>
                /\ C3_Soil = 30 /\ C3_Nutrient = 40
                /\ in.humidity = Humidity(40 * Scale) /\ in.rain = NoRain)
               => (total = 46 /\ response.weather_result.risk_label = "Risk")

\* The second example has been scored: Wheat ("20-30") at 35 degrees, soil and
\* nutrient unmatched, humidity 40, no rain.
C3_Witness ==
    /\ response.weather_result.present
    /\ request.in.crop_name = "Wheat"
    /\ request.in.temp_c = 35 * Scale
    /\ C3_Soil = 30 /\ C3_Nutrient = 40
    /\ request.in.humidity = Humidity(40 * Scale) /\ request.in.rain = NoRain
    /\ response.weather_result.total_score = 46

\* ------------------------------------------------------------------- C6
\* How many of the five phrases occur in a description, case ignored.
MatchedPhrases(description) ==
    Cardinality({n \in 1..Len(suspicious_keywords) :
                    Contains(suspicious_keywords[n], Lower(description))})

\* C6: every stored campaign has risk_score = min(100, 25 * matched phrases), a
\* multiple of 25 in [0,100], and trust_label "High Trust" for 0 matches,
\* "Moderate Risk" for 1, "High Risk" for 2 or more; "Guaranteed 100% profit,
\* risk free" gives 75 / "High Risk".
C6_TrustScore ==
    \A i \in 1..Len(campaigns) :
        LET c == campaigns[i]
            n == MatchedPhrases(c.description)
        IN  /\ c.risk_score = Min(100, 25 * n)
            /\ c.risk_score % 25 = 0
            /\ c.risk_score <= 100
            /\ c.trust_label = (IF n = 0 THEN "High Trust"
                                ELSE IF n = 1 THEN "Moderate Risk"
                                ELSE "High Risk")
            /\ c.description = ScamDescription =>
                   (c.risk_score = 75 /\ c.trust_label = "High Risk")

\* create_fund has stored a campaign whose description holds all five phrases.
C6_Witness ==
    /\ request.route = "create_fund"
    /\ campaigns # <<>>
    /\ MatchedPhrases(campaigns[Len(campaigns)].description) = 5
    /\ campaigns[Len(campaigns)].risk_score = 100
    /\ campaigns[Len(campaigns)].description # Lower(campaigns[Len(campaigns)].description)

\* ------------------------------------------------------------------- C8
\* A float field that is missing, empty, not a number for float(), or <= 0.
BadFloatField(field) ==
    \/ ~field.present
    \/ field.val = <<>>
    \/ ~ParseFloat(field.val).ok
    \/ FLeqZero(ParseFloat(field.val).val)

\* An int field that is missing, empty or not a number for int().
BadIntField(field) ==
    \/ ~field.present
    \/ field.val = <<>>
    \/ ~ParseInt(field.val).ok

\* The request just handled left the tables alone and flashed a validation error.
RejectedStep ==
    /\ campaigns' = campaigns
    /\ investments' = investments
    /\ users' = users
    /\ response'.kind = "redirect"
    /\ response'.to = "fund_page"
    /\ response'.category = "danger"

C9_AsStated ==
    (/\ request.route = "weather_check"
     /\ session.user_id # 0
     /\ request.in.crop_name \in DOMAIN CropData
     /\ request.in.fetch # "ok")
    => /\ response.kind = "render"
       /\ response.flash = "Weather API error. Check API key / city selection."
       /\ ~response.weather_result.present

\* ------------------------------------------------------------------ C10
\* C10: no request changes the risk_score or the trust_label of a stored
\* campaign, and no request removes a campaign.
C10_TrustFixed ==
    [][/\ Len(campaigns') >= Len(campaigns)
       /\ \A i \in 1..Len(campaigns) :
            /\ campaigns'[i].risk_score = campaigns[i].risk_score
            /\ campaigns'[i].trust_label = campaigns[i].trust_label]_vars

\* A campaign scored 75 has received an investment, a second campaign was
\* created after it, and the user has logged out.
C10_Witness ==
    /\ Len(campaigns) = 2
    /\ campaigns[1].risk_score = 75
    /\ campaigns[1].trust_label = "High Risk"
    /\ campaigns[1].raised_amount = Num(50 * Scale)
    /\ campaigns[2].risk_score = 0
    /\ session = NoSession

\* ======================================================= ai_crop.py, called alone
\* The keys of NEPAL_CROPS, in insertion order.
NEPAL_CROPS == <<"Rice", "Wheat", "Maize", "Potato", "Tomato">>

\* LABEL_MAP, in insertion order: <<key, crop>>.
LABEL_MAP ==
    << <<<<"c", "o", "r", "n">>, "Maize">>, <<<<"m", "a", "i", "z", "e">>, "Maize">>, <<<<"e", "a", "r">>, "Maize">>,
       <<<<"c", "o", "r", "n", "c", "o", "b">>, "Maize">>, <<<<"w", "h", "e", "a", "t">>, "Wheat">>, <<<<"g", "r", "a", "i", "n">>, "Wheat">>,
       <<<<"r", "i", "c", "e">>, "Rice">>, <<<<"p", "a", "d", "d", "y">>, "Rice">>, <<<<"p", "o", "t", "a", "t", "o">>, "Potato">>,
       <<<<"m", "a", "s", "h", "e", "d", "_", "p", "o", "t", "a", "t", "o">>, "Potato">>, <<<<"t", "o", "m", "a", "t", "o">>, "Tomato">> >>

\* The labels the classifier ranks in the model: crops under one key, under two
\* keys of one crop, with capitals, and a label no key occurs in.
Labels ==
    {<<"c", "o", "r", "n">>, <<"e", "a", "r">>, <<"m", "a", "s", "h", "e", "d", "_", "p", "o", "t", "a", "t", "o">>, <<"w", "h", "e", "a", "t">>, <<"R", "i", "c", "e", "_", "p", "a", "d", "d", "y">>, <<"t", "o", "m", "a", "t", "o">>,
     <<"G", "r", "a", "n", "n", "y", "_", "S", "m", "i", "t", "h">>}

\* The probabilities of the model, in units of 1/Scale.
Probs == {0, 2, 3}

\* The keys of LABEL_MAP that occur in label.lower(), as indices.
MatchedKeys ==
    [label \in Labels |->
        {n \in 1..Len(LABEL_MAP) : Contains(LABEL_MAP[n][1], Lower(label))}]

\* What the loops of _crop_suggestions add to scores[crop]: prob once for every
\* key of the crop that occurs in the label, over the entries of top.
RECURSIVE ScoreOf(_, _)
ScoreOf(crop, top) ==
    IF top = <<>> THEN 0
    ELSE LET label == Head(top)[1]
             prob == Head(top)[2]
             hits == Cardinality({n \in MatchedKeys[label] : LABEL_MAP[n][2] = crop})
         IN  hits * prob + ScoreOf(crop, Tail(top))

\* sorted(items, key=score, reverse=True): a stable sort, so items with equal
\* scores keep their order; done here by stable insertion.
RECURSIVE SortedDesc(_, _)
SortedDesc(items, score) ==
    IF items = <<>> THEN <<>>
    ELSE LET rest == SortedDesc(Tail(items), score)
             x == Head(items)
             before == {n \in 1..Len(rest) : score[rest[n]] > score[x]}
             k == Cardinality(before)
         IN  SubSeq(rest, 1, k) \o <<x>> \o SubSeq(rest, k + 1, Len(rest))

\* _crop_suggestions(top).
_crop_suggestions(top) ==
    LET scores == [crop \in {NEPAL_CROPS[n] : n \in 1..Len(NEPAL_CROPS)} |->
                       ScoreOf(crop, top)]
        ranked == SortedDesc(NEPAL_CROPS, scores)
        positive == SelectSeq(ranked, LAMBDA name : scores[name] > 0)
        sug == SubSeq(positive, 1, Min(3, Len(positive)))
    IN  IF sug = <<>> THEN <<"Rice", "Maize", "Wheat">> ELSE sug

\* The longest ranked list the model hands to _crop_suggestions.
MaxTop == 4

\* decode_predictions' outputs of length n: <<label, prob>> entries with distinct
\* labels, probabilities not increasing and adding up to at most 1.
RECURSIVE ProbSum(_)
ProbSum(top) == IF top = <<>> THEN 0 ELSE Head(top)[2] + ProbSum(Tail(top))

RECURSIVE RankedTops(_)
RankedTops(n) ==
    IF n = 0 THEN {<<>>}
    ELSE UNION {{Append(top, <<label, prob>>) :
                    label \in {l \in Labels : \A i \in 1..Len(top) : top[i][1] # l},
                    prob \in {p \in Probs :
                                /\ top # <<>> => p <= top[Len(top)][2]
                                /\ ProbSum(top) + p <= Scale}} :
                top \in RankedTops(n - 1)}

\* predict_crop's call of _crop_suggestions on a ranked list.
CallCropSuggestions ==
    /\ call = NoCall
    /\ \E n \in 0..MaxTop :
         \E top \in RankedTops(n) :
           call' = [fn |-> "_crop_suggestions", top |-> top,
                    ret |-> _crop_suggestions(top)]
    /\ UNCHANGED appvars

InitCrop == InitApp /\ call = NoCall

NextCrop == CallCropSuggestions

SpecCrop == InitCrop /\ [][NextCrop]_vars

\* ------------------------------------------------------------------ C11
\* The summed probability of the labels of the call that match the dictionary
\* for a crop: each label's probability once.
RECURSIVE LabelSum(_, _)
LabelSum(crop, top) ==
    IF top = <<>> THEN 0
    ELSE (IF \E n \in MatchedKeys[Head(top)[1]] : LABEL_MAP[n][2] = crop
          THEN Head(top)[2] ELSE 0) + LabelSum(crop, Tail(top))

CropIndex(crop) == CHOOSE n \in 1..Len(NEPAL_CROPS) : NEPAL_CROPS[n] = crop

\* Whether crop a comes before crop b: a larger summed probability, or an equal
\* one and an earlier place in NEPAL_CROPS.
RanksBefore(a, b, top) ==
    \/ LabelSum(a, top) > LabelSum(b, top)
    \/ LabelSum(a, top) = LabelSum(b, top) /\ CropIndex(a) < CropIndex(b)

\* C11 as stated: _crop_suggestions returns at most 3 distinct crops, those whose
\* summed probability over matching labels is positive, by that sum descending
\* and by the order of NEPAL_CROPS on ties; ["Rice", "Maize", "Wheat"] when no
\* label maps to a crop.
C11_AsStated ==
    call.fn = "_crop_suggestions" =>
        LET ret == call.ret
            top == call.top
            crops == {NEPAL_CROPS[n] : n \in 1..Len(NEPAL_CROPS)}
            positive == {c \in crops : LabelSum(c, top) > 0}
            returned == {ret[n] : n \in 1..Len(ret)}
        IN  IF positive = {} THEN ret = <<"Rice", "Maize", "Wheat">>
            ELSE /\ Len(ret) = Min(3, Cardinality(positive))
                 /\ Cardinality(returned) = Len(ret)
                 /\ returned \subseteq positive
                 /\ \A i, j \in 1..Len(ret) : i < j => RanksBefore(ret[i], ret[j], top)
                 /\ \A c \in positive \ returned :
                        \A n \in 1..Len(ret) : RanksBefore(ret[n], c, top)

\* ------------------------------------------------------------------ C12
\* C12 as stated: every range parse_temp_range produces, and every range
\* temp_score is handed, has min <= max, whatever the optimal_temp string
\* (bounds written in descending order included).
C12_AsStated ==
    /\ (/\ call.fn = "parse_temp_range"
        /\ call.ret.val[1].k = "num"
        /\ call.ret.val[2].k = "num")
       => call.ret.val[1].v <= call.ret.val[2].v
    /\ call.fn = "temp_score" => call.ideal_min <= call.ideal_max

\* ========================================== invest, with requests overlapping
\* The server handles each request in a thread of its own (app.run, the
\* development server's default), so an invest request can read its campaign
\* while another has not committed yet.  A request in flight has passed the
\* checks of invest, loaded its campaign and computed the new raised_amount from
\* the value it loaded; the commit writes that value and inserts the Investment.

\* The most invest requests in flight at once.
MaxInflight == 2

\* invest up to the commit: the checks, get_or_404, the Investment object and
\* campaign.raised_amount = float(campaign.raised_amount or 0) + amount.
invest_read(forms) ==
    \E campaign_id \in 1..(Len(campaigns) + 1), form \in forms :
      LET amount_raw == Strip(FormGet(form.amount, <<>>))
          amount == ParseFloat(amount_raw)
          found == campaign_id \in 1..Len(campaigns)
          accepted == /\ is_logged_in /\ amount.ok /\ ~FLeqZero(amount.val)
                      /\ found
      IN  /\ accepted => /\ Len(inflight) < MaxInflight
                         /\ Len(investments) + Len(inflight) < MaxInvestments
          /\ IF accepted
             THEN /\ inflight' = Append(inflight,
                        [campaign_id |-> campaign_id, form |-> form,
                         inv |-> [campaign_id |-> campaign_id,
                                  investor_id |-> session.user_id,
                                  amount |-> amount.val],
                         campaign |-> InvestedCampaign(campaigns[campaign_id],
                                                       amount.val)])
                  /\ UNCHANGED <<request, response>>
             ELSE /\ request' = [route |-> "invest", campaign_id |-> campaign_id,
                                 form |-> form]
                  /\ response' =
                       IF ~is_logged_in THEN LoginFirst
                       ELSE IF ~amount.ok
                       THEN Redirect("fund_page", "Invalid amount.", "danger")
                       ELSE IF FLeqZero(amount.val)
                       THEN Redirect("fund_page",
                                     "Investment must be greater than 0.", "danger")
                       ELSE Raised("404 Not Found")
                  /\ UNCHANGED inflight
          /\ UNCHANGED <<users, session, campaigns, investments, call>>

\* db.session.add(inv); db.session.commit() of a request in flight: the UPDATE
\* sets the campaign's raised_amount to the value the request computed, the
\* INSERT adds its Investment.
invest_commit ==
    \E n \in 1..Len(inflight) :
      LET r == inflight[n]
      IN  /\ inflight' = SubSeq(inflight, 1, n - 1)
                           \o SubSeq(inflight, n + 1, Len(inflight))
          /\ request' = [route |-> "invest", campaign_id |-> r.campaign_id,
                         form |-> r.form]
          /\ IF BindsNull(r.inv.amount)
             THEN /\ response' = Raised("IntegrityError")
                  /\ UNCHANGED <<campaigns, investments>>
             ELSE /\ campaigns' =
                       [campaigns EXCEPT ![r.campaign_id].raised_amount =
                                             r.campaign.raised_amount]
                  /\ investments' = Append(investments, r.inv)
                  /\ response' = Redirect("fund_page", "Investment successful",
                                          "success")
          /\ UNCHANGED <<users, session, call>>

\* The investment forms of SpecLedger.
LedgerInvestForms ==
    [amount : {Field(<<" ", "5", "0", " ">>), Field(<<"2", "5", ".", "5">>), Field(<<"0">>), Field(<<"a", "b", "c">>),
               Field(<<"n", "a", "n">>)}]

\* A user logged in, nothing stored yet.
InitLedger ==
    /\ users = <<BobUser>>
    /\ session = BobSession
    /\ campaigns = <<>>
    /\ investments = <<>>
    /\ request = NoRequest
    /\ response = NoResponse
    /\ call = NoCall
    /\ inflight = <<>>

NextLedger ==
    \/ create_fund({GoodFund}, MaxCampaigns)
    \/ invest_read(LedgerInvestForms)
    \/ invest_commit

SpecLedger == InitLedger /\ [][NextLedger]_vars

\* ------------------------------------------------------------------ C13
\* The sum of the amounts of the Investment records of a campaign.
RECURSIVE InvestedSum(_, _)
InvestedSum(campaign_id, invs) ==
    IF invs = <<>> THEN Num(0)
    ELSE LET rest == InvestedSum(campaign_id, SubSeq(invs, 1, Len(invs) - 1))
             last == invs[Len(invs)]
         IN  IF last.campaign_id = campaign_id THEN FAdd(rest, last.amount)
             ELSE rest

\* Every campaign's raised_amount is the sum of its Investment records.
LedgerConsistent ==
    \A i \in 1..Len(campaigns) :
        campaigns[i].raised_amount = InvestedSum(i, investments)

\* C13 as stated: a campaign starts with raised_amount 0; after any create_fund
\* and invest requests each campaign's raised_amount is the sum of the amounts
\* of its Investment records; a successful invest adds exactly one Investment,
\* of amount > 0, and raises exactly its campaign's raised_amount by that amount.
C13_AsStated ==
    [][/\ LedgerConsistent'
       /\ Len(campaigns') > Len(campaigns) =>
              campaigns'[Len(campaigns')].raised_amount = Num(0)
       /\ investments' # investments =>
            /\ Len(investments') = Len(investments) + 1
            /\ SubSeq(investments', 1, Len(investments)) = investments
            /\ LET inv == investments'[Len(investments')]
               IN  /\ FGtZero(inv.amount)
                   /\ inv.campaign_id \in 1..Len(campaigns)
                   /\ \A i \in 1..Len(campaigns) :
                        campaigns'[i].raised_amount =
                            IF i = inv.campaign_id
                            THEN FAdd(campaigns[i].raised_amount, inv.amount)
                            ELSE campaigns[i].raised_amount]_vars

====
